---- MODULE Spec2Model ----
(***************************************************************************)
(* A model of src/calc.py: the expression engine CalculatorLogic           *)
(* (sanitizer, tokenizer, shunting-yard converter, postfix evaluator,      *)
(* percentage resolver, formatter) and the key handlers of Calculator.     *)
(*                                                                         *)
(* Strings are sequences of one-character strings.  A float is modelled    *)
(* by the exact rational <<n, d>> it stands for (d > 0, lowest terms):     *)
(* binary rounding error of float64 is not modelled.                       *)
(***************************************************************************)
EXTENDS Integers, Sequences, FiniteSets, TLC

VARIABLES
    expression,          \* the string handed to an entry point of CalculatorLogic
    pc,                  \* which entry point has been applied ("init": none yet)
    rpn,                 \* the postfix sequence _to_rpn produced
    outcome,             \* what compute did: [err, val]
    text,                \* the string an entry point returned
    raised,              \* the exception that escaped the entry point or handler
    value,               \* the number handed to format_result
    total_expression,    \* Calculator.total_expression
    current_expression   \* Calculator.current_expression

vars == <<expression, pc, rpn, outcome, text, raised, value,
          total_expression, current_expression>>

----------------------------------------------------------------------------
(* Characters and strings *)

Digits == {"0", "1", "2", "3", "4", "5", "6", "7", "8", "9"}

DigitVal(c) ==
    CASE c = "0" -> 0 [] c = "1" -> 1 [] c = "2" -> 2 [] c = "3" -> 3
      [] c = "4" -> 4 [] c = "5" -> 5 [] c = "6" -> 6 [] c = "7" -> 7
      [] c = "8" -> 8 [] c = "9" -> 9

DigitChar(n) == <<"0", "1", "2", "3", "4", "5", "6", "7", "8", "9">>[n + 1]

\* self.operators
operators == {"+", "-", "*", "/"}

\* the characters str.strip() removes (the ones the model's alphabets hold)
Whitespace == {" "}

\* the strings over alphabet A of length at most n
StringsUpTo(A, n) == UNION {[1..k -> A] : k \in 0..n}

RECURSIVE RStripSet(_, _)
\* s.rstrip(chars): drops the maximal trailing run of members of chars
RStripSet(s, chars) ==
    IF s # <<>> /\ s[Len(s)] \in chars
    THEN RStripSet(SubSeq(s, 1, Len(s) - 1), chars)
    ELSE s

RECURSIVE LStripSet(_, _)
LStripSet(s, chars) ==
    IF s # <<>> /\ s[1] \in chars
    THEN LStripSet(Tail(s), chars)
    ELSE s

\* s.strip()
Strip(s) == LStripSet(RStripSet(s, Whitespace), Whitespace)

----------------------------------------------------------------------------
(* Numbers: exact rationals <<n, d>> *)

Abs(x) == IF x < 0 THEN -x ELSE x

RECURSIVE GCD(_, _)
GCD(a, b) == IF b = 0 THEN a ELSE GCD(b, a % b)

Rat(n, d) ==
    LET g == GCD(Abs(n), Abs(d))
        s == IF d < 0 THEN -1 ELSE 1
    IN  <<(s * n) \div g, (s * d) \div g>>

Zero == <<0, 1>>

RAdd(a, b) == Rat(a[1] * b[2] + b[1] * a[2], a[2] * b[2])
RSub(a, b) == Rat(a[1] * b[2] - b[1] * a[2], a[2] * b[2])
RMul(a, b) == Rat(a[1] * b[1], a[2] * b[2])
RDiv(a, b) == Rat(a[1] * b[2], a[2] * b[1])
RNeg(a)    == <<-a[1], a[2]>>

RECURSIVE Pow10(_)
Pow10(k) == IF k = 0 THEN 1 ELSE 10 * Pow10(k - 1)

RECURSIVE DigitsToInt(_)
DigitsToInt(s) ==
    IF s = <<>> THEN 0
    ELSE 10 * DigitsToInt(SubSeq(s, 1, Len(s) - 1)) + DigitVal(s[Len(s)])

\* the index of the first "." of s, or 0
DotIndex(s) ==
    IF \E i \in 1..Len(s) : s[i] = "."
    THEN CHOOSE i \in 1..Len(s) : s[i] = "." /\ \A j \in 1..(i - 1) : s[j] # "."
    ELSE 0

\* float(token) for a token of the tokenizer: digits, or digits "." digits
TokenToFloat(tok) ==
    LET dot == DotIndex(tok)
    IN  IF dot = 0
        THEN Rat(DigitsToInt(tok), 1)
        ELSE LET ip == SubSeq(tok, 1, dot - 1)
                 fp == SubSeq(tok, dot + 1, Len(tok))
             IN  Rat(DigitsToInt(ip \o fp), Pow10(Len(fp)))

----------------------------------------------------------------------------
(* CalculatorLogic: sanitizer and tokenizer *)

\* _strip_trailing_operators: expression.strip().rstrip('+-*/')
StripTrailingOperators(s) == RStripSet(Strip(s), operators)

\* the end of the maximal run of digits of s that starts at i (i - 1: none)
RECURSIVE DigitRunEnd(_, _)
DigitRunEnd(s, i) ==
    IF i <= Len(s) /\ s[i] \in Digits THEN DigitRunEnd(s, i + 1) ELSE i - 1

Symbols == {"(", ")", "+", "-", "*", "/"}

RECURSIVE TokenizeFrom(_, _)
\* re.findall(r'\d+\.\d+|\d+|[()+\-*/]', s) from position i on
TokenizeFrom(s, i) ==
    IF i > Len(s) THEN <<>>
    ELSE IF s[i] \in Digits
    THEN LET e == DigitRunEnd(s, i)
             f == IF e + 1 <= Len(s) /\ s[e + 1] = "."
                  THEN DigitRunEnd(s, e + 2) ELSE e + 1
             last == IF f >= e + 2 THEN f ELSE e
         IN  <<SubSeq(s, i, last)>> \o TokenizeFrom(s, last + 1)
    ELSE IF s[i] \in Symbols
    THEN <<(<<s[i]>>)>> \o TokenizeFrom(s, i + 1)
    ELSE TokenizeFrom(s, i + 1)

\* _tokenize
Tokenize(s) == TokenizeFrom(s, 1)

----------------------------------------------------------------------------
(* CalculatorLogic: infix to postfix (shunting-yard) *)

\* an item of the postfix sequence: a float, or a symbol left as its string
Num(v) == [k |-> "num", s |-> "", v |-> v]
Sym(c) == [k |-> "sym", s |-> c, v |-> Zero]

\* precedence = {'+': 1, '-': 1, '*': 2, '/': 2}
precedence == [c \in operators |-> IF c \in {"*", "/"} THEN 2 ELSE 1]

\* re.match(r'\d+(\.\d+)?', token): the token starts with a digit
IsNumberToken(tok) == tok[1] \in Digits

RECURSIVE PopHigher(_, _, _)
\* while ops and ops[-1] != '(' and precedence[ops[-1]] >= precedence[token]:
\*     output.append(ops.pop())
PopHigher(output, ops, token) ==
    IF ops # <<>> /\ ops[Len(ops)] # "("
       /\ precedence[ops[Len(ops)]] >= precedence[token]
    THEN PopHigher(Append(output, Sym(ops[Len(ops)])),
                   SubSeq(ops, 1, Len(ops) - 1), token)
    ELSE [output |-> output, ops |-> ops]

RECURSIVE PopToParen(_, _)
\* while ops and ops[-1] != '(': output.append(ops.pop())
\* if ops and ops[-1] == '(': ops.pop()
PopToParen(output, ops) ==
    IF ops # <<>> /\ ops[Len(ops)] # "("
    THEN PopToParen(Append(output, Sym(ops[Len(ops)])), SubSeq(ops, 1, Len(ops) - 1))
    ELSE IF ops # <<>>
    THEN [output |-> output, ops |-> SubSeq(ops, 1, Len(ops) - 1)]
    ELSE [output |-> output, ops |-> ops]

RECURSIVE PopAll(_, _)
\* while ops: output.append(ops.pop())
PopAll(output, ops) ==
    IF ops # <<>>
    THEN PopAll(Append(output, Sym(ops[Len(ops)])), SubSeq(ops, 1, Len(ops) - 1))
    ELSE output

\* prev is None or prev in '(-+*/'   (None is modelled by the empty token)
UnaryPosition(prev) == prev = <<>> \/ prev[1] \in {"(", "-", "+", "*", "/"}

\* one turn of the loop of _to_rpn; st = [output, ops, prev]
ToRpnStep(st, token) ==
    IF IsNumberToken(token)
    THEN [output |-> Append(st.output, Num(TokenToFloat(token))),
          ops |-> st.ops, prev |-> token]
    ELSE IF token[1] \in DOMAIN precedence
    THEN LET out0 == IF token[1] = "-" /\ UnaryPosition(st.prev)
                     THEN Append(st.output, Num(Zero)) ELSE st.output
             p == PopHigher(out0, st.ops, token[1])
         IN  [output |-> p.output, ops |-> Append(p.ops, token[1]), prev |-> token]
    ELSE IF token[1] = "("
    THEN [output |-> st.output, ops |-> Append(st.ops, "("), prev |-> token]
    ELSE IF token[1] = ")"
    THEN LET p == PopToParen(st.output, st.ops)
         IN  [output |-> p.output, ops |-> p.ops, prev |-> token]
    ELSE [output |-> st.output, ops |-> st.ops, prev |-> token]

RECURSIVE ToRpnLoop(_, _, _)
ToRpnLoop(st, tokens, i) ==
    IF i > Len(tokens) THEN st
    ELSE ToRpnLoop(ToRpnStep(st, tokens[i]), tokens, i + 1)

\* _to_rpn
ToRpn(tokens) ==
    LET st == ToRpnLoop([output |-> <<>>, ops |-> <<>>, prev |-> <<>>], tokens, 1)
    IN  PopAll(st.output, st.ops)

----------------------------------------------------------------------------
(* CalculatorLogic: postfix evaluator *)

NoError == "none"

\* EvalStep with the zero divisor reported as the evaluator's other error
EvalStepWrongError(st, token) ==
    IF st.err # NoError THEN st
    ELSE IF token.k = "num"
    THEN [stack |-> Append(st.stack, token.v), err |-> NoError]
    ELSE IF Len(st.stack) < 2
    THEN [stack |-> st.stack, err |-> "ValueError"]
    ELSE LET n == Len(st.stack)
             b == st.stack[n]
             a == st.stack[n - 1]
             rest == SubSeq(st.stack, 1, n - 2)
         IN  IF token.s = "+" THEN [stack |-> Append(rest, RAdd(a, b)), err |-> NoError]
             ELSE IF token.s = "-" THEN [stack |-> Append(rest, RSub(a, b)), err |-> NoError]
             ELSE IF token.s = "*" THEN [stack |-> Append(rest, RMul(a, b)), err |-> NoError]
             ELSE IF token.s = "/"
             THEN IF b = Zero
                  THEN [stack |-> rest, err |-> "ValueError"]
                  ELSE [stack |-> Append(rest, RDiv(a, b)), err |-> NoError]
             ELSE [stack |-> rest, err |-> NoError]

\* one turn of the loop of _evaluate_rpn; st = [stack, err]
EvalStep(st, token) ==
    IF st.err # NoError THEN st
    ELSE IF token.k = "num"
    THEN [stack |-> Append(st.stack, token.v), err |-> NoError]
    ELSE IF Len(st.stack) < 2
    THEN [stack |-> st.stack, err |-> "ValueError"]
    ELSE LET n == Len(st.stack)
             b == st.stack[n]
             a == st.stack[n - 1]
             rest == SubSeq(st.stack, 1, n - 2)
         IN  IF token.s = "+" THEN [stack |-> Append(rest, RAdd(a, b)), err |-> NoError]
             ELSE IF token.s = "-" THEN [stack |-> Append(rest, RSub(a, b)), err |-> NoError]
             ELSE IF token.s = "*" THEN [stack |-> Append(rest, RMul(a, b)), err |-> NoError]
             ELSE IF token.s = "/"
             THEN IF b = Zero
                  THEN [stack |-> rest, err |-> "ZeroDivisionError"]
                  ELSE [stack |-> Append(rest, RDiv(a, b)), err |-> NoError]
             ELSE [stack |-> rest, err |-> NoError]

RECURSIVE EvalLoop(_, _, _)
\* the state of the evaluator after the tokens i..upto
EvalLoop(st, tokens, i) ==
    IF i > Len(tokens) THEN st
    ELSE EvalLoop(EvalStep(st, tokens[i]), tokens, i + 1)

\* EvalFinish that only refuses an empty stack and returns its top
EvalFinishTop(st) ==
    IF st.err # NoError THEN [err |-> st.err, val |-> Zero]
    ELSE IF st.stack = <<>> THEN [err |-> "ValueError", val |-> Zero]
    ELSE [err |-> NoError, val |-> st.stack[Len(st.stack)]]

\* the end of _evaluate_rpn: if len(stack) != 1: raise ValueError; return stack[0]
EvalFinish(st) ==
    IF st.err # NoError THEN [err |-> st.err, val |-> Zero]
    ELSE IF Len(st.stack) # 1 THEN [err |-> "ValueError", val |-> Zero]
    ELSE [err |-> NoError, val |-> st.stack[1]]

\* _evaluate_rpn
EvaluateRpn(tokens) ==
    EvalFinish(EvalLoop([stack |-> <<>>, err |-> NoError], tokens, 1))

\* compute
Compute(s) == EvaluateRpn(ToRpn(Tokenize(StripTrailingOperators(s))))

----------------------------------------------------------------------------
(* CalculatorLogic: percentage resolver *)

\* the largest number of fractional digits of a float the model prints
MaxReprDigits == 6

RECURSIVE IntToDigits(_)
\* str(n) for an integer n >= 0
IntToDigits(n) ==
    IF n < 10 THEN <<DigitChar(n)>>
    ELSE Append(IntToDigits(n \div 10), DigitChar(n % 10))

RECURSIVE ZeroPad(_, _)
\* s padded on the left with "0" to the width w
ZeroPad(s, w) == IF Len(s) >= w THEN s ELSE ZeroPad(<<"0">> \o s, w)

\* r >= 0 has a decimal expansion of at most MaxReprDigits fractional digits
Terminates(r) == \E k \in 0..MaxReprDigits : Pow10(k) % r[2] = 0

\* the number of fractional digits of r >= 0
FracDigits(r) ==
    CHOOSE k \in 0..MaxReprDigits :
        /\ Pow10(k) % r[2] = 0
        /\ \A j \in 0..(k - 1) : Pow10(j) % r[2] # 0

\* r >= 0 in positional notation with at least one fractional digit: "20.0"
FixedDecimal(r) ==
    LET k == FracDigits(r)
        m == r[1] * (Pow10(k) \div r[2])
    IN  IntToDigits(m \div Pow10(k)) \o <<".">>
        \o (IF k = 0 THEN <<"0">> ELSE ZeroPad(IntToDigits(m % Pow10(k)), k))

\* r > 0 in exponent notation: "1e-05", "2.5e-05"
ExponentDecimal(r) ==
    LET k == FracDigits(r)
        d == IntToDigits(r[1] * (Pow10(k) \div r[2]))
        e == k - (Len(d) - 1)
    IN  <<d[1]>> \o (IF Len(d) > 1 THEN <<".">> \o Tail(d) ELSE <<>>)
        \o <<"e", "-">> \o ZeroPad(IntToDigits(e), 2)

\* f"{x}" for the float x of magnitude r and sign neg: repr prints the
\* shortest decimal that reads back as x, in exponent notation below 1e-4
\* (and from 1e16 on, which the model's numbers do not reach)
FloatRepr(neg, r) ==
    (IF neg THEN <<"-">> ELSE <<>>)
    \o (IF r # Zero /\ r[1] * 10000 < r[2] THEN ExponentDecimal(r) ELSE FixedDecimal(r))

\* s matches \d+(\.\d+)?
IsDecimal(s) ==
    /\ s # <<>>
    /\ \A i \in 1..Len(s) : s[i] \in Digits \cup {"."}
    /\ LET dot == DotIndex(s)
       IN  dot = 0 \/ (/\ 1 < dot /\ dot < Len(s)
                       /\ \A i \in (dot + 1)..Len(s) : s[i] # ".")

\* the places i of the operator in a match of (.+?)([+\-*/])(\d+(\.\d+)?)%$
MatchPlaces(s) ==
    {i \in 2..(Len(s) - 2) :
        /\ s[Len(s)] = "%"
        /\ s[i] \in operators
        /\ IsDecimal(SubSeq(s, i + 1, Len(s) - 1))}

\* re.search(r'(.+?)([+\-*/])(\d+(\.\d+)?)%$', expression): the lazy prefix
\* takes the first place that lets the rest match
MatchPercentage(s) ==
    IF MatchPlaces(s) = {}
    THEN [ok |-> FALSE, base_expr |-> <<>>, operator |-> "", percent_str |-> <<>>]
    ELSE LET i == CHOOSE i \in MatchPlaces(s) : \A j \in MatchPlaces(s) : i <= j
         IN  [ok |-> TRUE,
              base_expr |-> SubSeq(s, 1, i - 1),
              operator |-> s[i],
              percent_str |-> SubSeq(s, i + 1, Len(s) - 1)]

\* percent_value = base * (percent / 100)
PercentValue(base, percent_str) == RMul(base, RDiv(TokenToFloat(percent_str), <<100, 1>>))

\* resolve_percentage: [err, text]; err is the exception compute raised
ResolvePercentage(s) ==
    LET m == MatchPercentage(s)
    IN  IF ~m.ok THEN [err |-> NoError, text |-> s]
        ELSE LET c == Compute(m.base_expr)
                 v == PercentValue(c.val, m.percent_str)
             IN  IF c.err # NoError THEN [err |-> c.err, text |-> <<>>]
                 ELSE [err |-> NoError,
                       text |-> m.base_expr \o <<m.operator>>
                                \o FloatRepr(c.val[1] < 0, <<Abs(v[1]), v[2]>>)]

----------------------------------------------------------------------------
(* CalculatorLogic: formatter.  format_result reads its float through a     *)
(* decimal view [kind, neg, ip, fp, more]: kind "num", "inf" or "nan", the  *)
(* sign, the digits of the integer part (none for 0), fractional digits,    *)
(* and whether a nonzero remainder follows them.                            *)

\* the width of the display string: result[:11]
DisplayWidth == 11

\* round(num, 6) and the 6 of f"{rounded:.6f}"
Places == 6

\* the number of digits of the integer 1e15
ThresholdDigits == 16

AllZero(s) == \A i \in 1..Len(s) : s[i] = "0"

RECURSIVE Zeros(_)
Zeros(k) == IF k <= 0 THEN <<>> ELSE <<"0">> \o Zeros(k - 1)

RECURSIVE IncDigits(_)
\* the digits of n + 1 from the digits of n, leading zeros kept
IncDigits(d) ==
    IF d = <<>> THEN <<"1">>
    ELSE IF d[Len(d)] = "9" THEN IncDigits(SubSeq(d, 1, Len(d) - 1)) \o <<"0">>
    ELSE SubSeq(d, 1, Len(d) - 1) \o <<DigitChar(DigitVal(d[Len(d)]) + 1)>>

\* the float neg mant * 10^exp (mant a digit string, empty for 0)
DecOfSci(neg, mant, exp) ==
    IF exp >= 0
    THEN [kind |-> "num", neg |-> neg, more |-> FALSE,
          ip |-> IF mant = <<>> THEN <<>> ELSE mant \o Zeros(exp), fp |-> <<>>]
    ELSE LET padded == ZeroPad(mant, -exp)
             cut == Len(padded) + exp
         IN  [kind |-> "num", neg |-> neg, more |-> FALSE,
              ip |-> SubSeq(padded, 1, cut),
              fp |-> SubSeq(padded, cut + 1, Len(padded))]

RECURSIVE FracExpansion(_, _, _)
\* the first k fractional digits of rem / d, for 0 <= rem < d
FracExpansion(rem, d, k) ==
    IF k = 0 THEN <<>>
    ELSE <<DigitChar((rem * 10) \div d)>> \o FracExpansion((rem * 10) % d, d, k - 1)

RECURSIVE RemainderAfter(_, _, _)
RemainderAfter(rem, d, k) ==
    IF k = 0 THEN rem ELSE RemainderAfter((rem * 10) % d, d, k - 1)

\* the float the rational r stands for
DecOfRat(r) ==
    LET n == Abs(r[1])
    IN  [kind |-> "num", neg |-> r[1] < 0,
         ip |-> IF n \div r[2] = 0 THEN <<>> ELSE IntToDigits(n \div r[2]),
         fp |-> FracExpansion(n % r[2], r[2], Places + 1),
         more |-> RemainderAfter(n % r[2], r[2], Places + 1) # 0]

\* abs(num) > 1e15
ExceedsThreshold(x) ==
    \/ x.kind = "inf"
    \/ /\ x.kind = "num"
       /\ \/ Len(x.ip) > ThresholdDigits
          \/ /\ Len(x.ip) = ThresholdDigits
             /\ ~(x.ip = <<"1">> \o Zeros(ThresholdDigits - 1) /\ AllZero(x.fp) /\ ~x.more)

\* whether dropping the digits tail (and the remainder) rounds up.  A tie in
\* decimal is a float on either side of it, or an exact tie that goes to the
\* even digit: tieUp says which way it goes.
RoundsUp(tail, more, tieUp) ==
    IF tail = <<>> THEN FALSE
    ELSE IF DigitVal(tail[1]) > 5 THEN TRUE
    ELSE IF DigitVal(tail[1]) < 5 THEN FALSE
    ELSE IF ~AllZero(Tail(tail)) \/ more THEN TRUE
    ELSE tieUp

SignOf(x) == IF x.neg THEN <<"-">> ELSE <<>>

\* f"{num:.2e}" for abs(num) > 1e15
ScientificFormat(x, tieUp) ==
    IF x.kind = "inf" THEN SignOf(x) \o <<"i", "n", "f">>
    ELSE LET lead == SubSeq(x.ip, 1, 3)
             tail == SubSeq(x.ip, 4, Len(x.ip)) \o x.fp
             m == IF RoundsUp(tail, x.more, tieUp) THEN IncDigits(lead) ELSE lead
             e == Len(x.ip) - 1 + (IF Len(m) = 4 THEN 1 ELSE 0)
         IN  SignOf(x) \o <<m[1], ".", m[2], m[3], "e", "+">> \o ZeroPad(IntToDigits(e), 2)

\* f"{round(num, 6):.6f}".rstrip('0').rstrip('.')
FixedFormat(x, tieUp) ==
    IF x.kind = "nan" THEN <<"n", "a", "n">>
    ELSE LET fp6 == SubSeq(x.fp \o Zeros(Places), 1, Places)
             tail == SubSeq(x.fp, Places + 1, Len(x.fp))
             d == x.ip \o fp6
             r == IF RoundsUp(tail, x.more, tieUp) THEN IncDigits(d) ELSE d
             ip2 == SubSeq(r, 1, Len(r) - Places)
             fp2 == SubSeq(r, Len(r) - Places + 1, Len(r))
             str == SignOf(x) \o (IF ip2 = <<>> THEN <<"0">> ELSE ip2) \o <<".">> \o fp2
         IN  RStripSet(RStripSet(str, {"0"}), {"."})

\* format_result without the cut to the display width
FormatResultUncut(x, tieUp) ==
    IF ExceedsThreshold(x) THEN ScientificFormat(x, tieUp)
    ELSE FixedFormat(x, tieUp)

\* format_result
FormatResult(x, tieUp) ==
    IF ExceedsThreshold(x) THEN ScientificFormat(x, tieUp)
    ELSE LET result == FixedFormat(x, tieUp)
         IN  IF Len(result) > DisplayWidth THEN SubSeq(result, 1, DisplayWidth)
             ELSE result

----------------------------------------------------------------------------
(* The value an expression denotes: a recursive-descent reading of the      *)
(* token sequence under the usual grammar                                   *)
(*     expr  ::= term  { [+-] term  }       left-associative                *)
(*     term  ::= unary { [x/] unary }       left-associative, x the star    *)
(*     unary ::= - unary | number | "(" expr ")"                            *)
(* A result is [ok, val, pos, dz]: ok when a phrase was read, pos the index *)
(* after it, dz when a division by zero was met while reading it.           *)

NoParse == [ok |-> FALSE, val |-> Zero, pos |-> 0, dz |-> FALSE]

RECURSIVE RefExpr(_, _), RefExprRest(_, _), RefTerm(_, _), RefTermRest(_, _), RefUnary(_, _)

RefUnary(t, i) ==
    IF i > Len(t) THEN NoParse
    ELSE IF IsNumberToken(t[i])
    THEN [ok |-> TRUE, val |-> TokenToFloat(t[i]), pos |-> i + 1, dz |-> FALSE]
    ELSE IF t[i] = <<"-">>
    THEN LET r == RefUnary(t, i + 1)
         IN  IF r.ok THEN [r EXCEPT !.val = RNeg(@)] ELSE NoParse
    ELSE IF t[i] = <<"(">>
    THEN LET r == RefExpr(t, i + 1)
         IN  IF r.ok /\ r.pos <= Len(t) /\ t[r.pos] = <<")">>
             THEN [r EXCEPT !.pos = @ + 1] ELSE NoParse
    ELSE NoParse

RefTermRest(t, acc) ==
    IF acc.pos <= Len(t) /\ t[acc.pos] \in {<<"*">>, <<"/">>}
    THEN LET r == RefUnary(t, acc.pos + 1)
         IN  IF ~r.ok THEN NoParse
             ELSE IF acc.dz \/ r.dz \/ (t[acc.pos] = <<"/">> /\ r.val = Zero)
             THEN RefTermRest(t, [ok |-> TRUE, val |-> Zero, pos |-> r.pos, dz |-> TRUE])
             ELSE RefTermRest(t, [ok |-> TRUE, pos |-> r.pos, dz |-> FALSE,
                                  val |-> IF t[acc.pos] = <<"*">>
                                          THEN RMul(acc.val, r.val)
                                          ELSE RDiv(acc.val, r.val)])
    ELSE acc

RefTerm(t, i) ==
    LET r == RefUnary(t, i) IN IF r.ok THEN RefTermRest(t, r) ELSE NoParse

RefExprRest(t, acc) ==
    IF acc.pos <= Len(t) /\ t[acc.pos] \in {<<"+">>, <<"-">>}
    THEN LET r == RefTerm(t, acc.pos + 1)
         IN  IF ~r.ok THEN NoParse
             ELSE IF acc.dz \/ r.dz
             THEN RefExprRest(t, [ok |-> TRUE, val |-> Zero, pos |-> r.pos, dz |-> TRUE])
             ELSE RefExprRest(t, [ok |-> TRUE, pos |-> r.pos, dz |-> FALSE,
                                  val |-> IF t[acc.pos] = <<"+">>
                                          THEN RAdd(acc.val, r.val)
                                          ELSE RSub(acc.val, r.val)])
    ELSE acc

RefExpr(t, i) ==
    LET r == RefTerm(t, i) IN IF r.ok THEN RefExprRest(t, r) ELSE NoParse

\* the whole token sequence is one expression
RefParse(t) ==
    LET r == RefExpr(t, 1) IN IF r.ok /\ r.pos = Len(t) + 1 THEN r ELSE NoParse

\* well-formed, balanced, and no division by zero
WellFormed(t) == RefParse(t).ok /\ ~RefParse(t).dz

\* a minus in unary position: first, or right after "(" or an operator
HasUnaryMinus(t) ==
    \E i \in 1..Len(t) :
        /\ t[i] = <<"-">>
        /\ (i = 1 \/ t[i - 1] \in {<<"(">>, <<"+">>, <<"-">>, <<"*">>, <<"/">>})

----------------------------------------------------------------------------
(* Specification Spec: compute applied to one expression string *)

MaxExprLen == 5

ExprAlphabet == {"0", "5", "+", "-", "*", "/", "(", ")"}

NoOutcome == [err |-> NoError, val |-> Zero]

Idle ==
    /\ rpn = <<>>
    /\ outcome = NoOutcome
    /\ text = <<>>
    /\ raised = NoError
    /\ value = Zero
    /\ total_expression = <<>>
    /\ current_expression = <<>>

Init ==
    /\ expression \in StringsUpTo(ExprAlphabet, MaxExprLen)
    /\ pc = "init"
    /\ Idle

\* compute(expression)
CallCompute ==
    /\ pc = "init"
    /\ pc' = "compute"
    /\ rpn' = ToRpn(Tokenize(StripTrailingOperators(expression)))
    /\ outcome' = EvaluateRpn(rpn')
    /\ raised' = outcome'.err
    /\ UNCHANGED <<expression, text, value, total_expression, current_expression>>

Next == CallCompute

Spec == Init /\ [][Next]_vars

----------------------------------------------------------------------------
(* Claims about compute, checked under Spec *)

\* the evaluator's state before it reads tokens[k]
StateBefore(tokens, k) ==
    EvalLoop([stack |-> <<>>, err |-> NoError], SubSeq(tokens, 1, k - 1), 1)

\* the evaluator reaches tokens[k], a "/", with 0 on top of two or more values
DivisorZeroAt(tokens, k) ==
    LET st == StateBefore(tokens, k)
    IN  /\ tokens[k].k = "sym" /\ tokens[k].s = "/"
        /\ st.err = NoError
        /\ Len(st.stack) >= 2
        /\ st.stack[Len(st.stack)] = Zero

\* the evaluator reaches tokens[k], not a number, with fewer than two values
ArityShortAt(tokens, k) ==
    LET st == StateBefore(tokens, k)
    IN  /\ tokens[k].k = "sym"
        /\ st.err = NoError
        /\ Len(st.stack) < 2

\* C1: for every well-formed expression with balanced parentheses and no
\* division by zero (a minus in unary position included), compute returns the
\* value the expression denotes under precedence and left-associativity.
C1_ComputeCorrect ==
    (pc = "compute" /\ WellFormed(Tokenize(expression)))
        => outcome = [err |-> NoError, val |-> RefParse(Tokenize(expression)).val]

\* C4: whenever the evaluator applies "/" to a divisor that is exactly 0,
\* compute fails with ZeroDivisionError and returns no value; a value that is
\* returned is a finite number.
C4_DivisionByZeroFails ==
    pc = "compute" =>
        /\ (\E k \in 1..Len(rpn) : DivisorZeroAt(rpn, k))
               => (outcome.err = "ZeroDivisionError" /\ raised = "ZeroDivisionError")
        /\ outcome.err = NoError => outcome.val[2] > 0

\* compute("5/0") has been called and failed with ZeroDivisionError
C4_Witness ==
    /\ pc = "compute"
    /\ expression = <<"5", "/", "0">>
    /\ DivisorZeroAt(rpn, 3)
    /\ raised = "ZeroDivisionError"

\* C5: compute fails whenever the evaluator meets an operator with fewer than
\* two values on its stack, or ends with a stack that does not hold exactly
\* one value; a value compute returns is the single value left on the stack.
C5_ArityAndMalformedFail ==
    pc = "compute" =>
        LET final == StateBefore(rpn, Len(rpn) + 1)
        IN  /\ (\E k \in 1..Len(rpn) : ArityShortAt(rpn, k)) => outcome.err = "ValueError"
            /\ (final.err = NoError /\ Len(final.stack) # 1) => outcome.err = "ValueError"
            /\ outcome.err = NoError => final.stack = <<outcome.val>>

\* compute("5(5)") has failed: two numbers and no operator between them
C5_Witness ==
    /\ pc = "compute"
    /\ expression = <<"5", "(", "5", ")">>
    /\ Len(rpn) = 2
    /\ StateBefore(rpn, 3).err = NoError
    /\ outcome.err = "ValueError"

\* C9: a minus that is the first token or follows "(" or an operator gets
\* 0 - x semantics: compute returns the value obtained by negating the
\* operand that follows the minus, whatever operator precedes it.
C9_UnaryMinusNegates ==
    (pc = "compute" /\ WellFormed(Tokenize(expression))
                    /\ HasUnaryMinus(Tokenize(expression)))
        => (outcome.err = NoError
            /\ outcome.val = RefParse(Tokenize(expression)).val)

\* the postfix sequence without the items that are neither number nor operator
OnlyNumbersAndOperators(tokens) ==
    SelectSeq(tokens, LAMBDA t : t.k = "num" \/ t.s \in operators)

\* C10: the postfix sequence holds only numbers and the operators + - * /;
\* an unmatched "(" is discarded, consumes no operand and causes no error.
C10_PostfixHasNoParens ==
    pc = "compute" =>
        /\ \A k \in 1..Len(rpn) : rpn[k].k = "num" \/ rpn[k].s \in operators
        /\ outcome = EvaluateRpn(OnlyNumbersAndOperators(rpn))

----------------------------------------------------------------------------
(* Specification SpecSanitize: the sanitizer applied to one string *)

MaxSanLen == 5

SanAlphabet == {"5", "+", "-", " "}

InitSanitize ==
    /\ expression \in StringsUpTo(SanAlphabet, MaxSanLen)
    /\ pc = "init"
    /\ Idle

\* _strip_trailing_operators(expression)
CallStripTrailingOperators ==
    /\ pc = "init"
    /\ pc' = "sanitize"
    /\ text' = StripTrailingOperators(expression)
    /\ UNCHANGED <<expression, rpn, outcome, raised, value,
                   total_expression, current_expression>>

NextSanitize == CallStripTrailingOperators

SpecSanitize == InitSanitize /\ [][NextSanitize]_vars

\* C6: the sanitizer is idempotent for every string, blanks between trailing
\* operators included: sanitize(sanitize(s)) = sanitize(s), and compute has
\* the same outcome on both.
C6_SanitizeIdempotent ==
    pc = "sanitize" =>
        /\ StripTrailingOperators(text) = text
        /\ Compute(StripTrailingOperators(text)) = Compute(text)

----------------------------------------------------------------------------
(* Specification SpecPercent: resolve_percentage applied to one string, and *)
(* compute applied to what it returned                                      *)

MaxPctLen == 6

PctAlphabet == {"0", "5", "+", "-", "/", "%"}

\* the percent value of s, when there is one, is a float the model prints
PercentInRange(s) ==
    LET m == MatchPercentage(s)
        c == Compute(m.base_expr)
        v == PercentValue(c.val, m.percent_str)
    IN  (m.ok /\ c.err = NoError) => Terminates(<<Abs(v[1]), v[2]>>)

InitPercent ==
    /\ expression \in {s \in StringsUpTo(PctAlphabet, MaxPctLen) : PercentInRange(s)}
    /\ pc = "init"
    /\ Idle

\* resolve_percentage(expression)
CallResolvePercentage ==
    /\ pc = "init"
    /\ pc' = "resolve_percentage"
    /\ LET r == ResolvePercentage(expression)
       IN  text' = r.text /\ raised' = r.err
    /\ UNCHANGED <<expression, rpn, outcome, value,
                   total_expression, current_expression>>

\* compute(resolve_percentage(expression)), when the resolver returned
FeedCompute ==
    /\ pc = "resolve_percentage"
    /\ raised = NoError
    /\ pc' = "fed"
    /\ rpn' = ToRpn(Tokenize(StripTrailingOperators(text)))
    /\ outcome' = EvaluateRpn(rpn')
    /\ UNCHANGED <<expression, text, raised, value,
                   total_expression, current_expression>>

NextPercent == CallResolvePercentage \/ FeedCompute

SpecPercent == InitPercent /\ [][NextPercent]_vars

\* a op b for a and b numbers, b # 0 when op is "/"
Apply(op, a, b) ==
    IF op = "+" THEN RAdd(a, b)
    ELSE IF op = "-" THEN RSub(a, b)
    ELSE IF op = "*" THEN RMul(a, b)
    ELSE RDiv(a, b)

\* the tokens of a literal of value v
SignedLiteral(v) ==
    IF v[1] < 0
    THEN <<(<<"(">>), <<"-">>, FixedDecimal(RNeg(v)), <<")">>>>
    ELSE <<FixedDecimal(v)>>

\* C2: for P op n% with P a prefix expression that evaluates to base, the
\* string resolve_percentage returns is an equivalent absolute-number
\* expression: compute of it yields the value of P op (base * n / 100), for
\* every sign of base.  The value is read both ways the sentence allows: the
\* expression P op v with v = base * n / 100, and base op v.
C2_PercentageEquivalent ==
    LET m == MatchPercentage(expression)
        P == Tokenize(m.base_expr)
        base == Compute(m.base_expr)
        v == PercentValue(base.val, m.percent_str)
        want == RefParse(P \o <<(<<m.operator>>)>> \o SignedLiteral(v))
    IN  (pc = "fed" /\ m.ok /\ WellFormed(P) /\ base.err = NoError
                    /\ want.ok /\ ~want.dz)
            => /\ outcome.err = NoError
               /\ outcome.val \in {want.val, Apply(m.operator, base.val, v)}

\* C3: resolve_percentage never fails; when the string does not match the
\* percentage pattern or the prefix expression fails to evaluate, it returns
\* the string unchanged.
C3_ResolveNeverFails ==
    LET m == MatchPercentage(expression)
    IN  pc = "resolve_percentage" =>
            /\ raised = NoError
            /\ (~m.ok \/ Compute(m.base_expr).err # NoError) => text = expression

----------------------------------------------------------------------------
(* Specification SpecFormat: format_result applied to one float *)

\* the mantissas have at most MaxMantLen digits
MaxMantLen == 3

\* the floats are below 10^MaxDecExp (float64 ends at 1.8e308) ...
MaxDecExp == 308

\* ... and multiples of 10^-MaxFracExp
MaxFracExp == 8

MantDigits == {"1", "5", "9"}

Inf == [kind |-> "inf", neg |-> FALSE, ip |-> <<>>, fp |-> <<>>, more |-> FALSE]
NaN == [kind |-> "nan", neg |-> FALSE, ip |-> <<>>, fp |-> <<>>, more |-> FALSE]

InitFormat ==
    /\ value \in {DecOfSci(neg, mant, exp) :
                      neg \in BOOLEAN,
                      mant \in StringsUpTo(MantDigits, MaxMantLen),
                      exp \in (-MaxFracExp)..(MaxDecExp - MaxMantLen)}
                  \cup {Inf, [Inf EXCEPT !.neg = TRUE], NaN}
    /\ pc = "init"
    /\ expression = <<>>
    /\ rpn = <<>>
    /\ outcome = NoOutcome
    /\ text = <<>>
    /\ raised = NoError
    /\ total_expression = <<>>
    /\ current_expression = <<>>

\* format_result(value)
CallFormatResult ==
    /\ pc = "init"
    /\ pc' = "format_result"
    /\ \E tieUp \in BOOLEAN : text' = FormatResult(value, tieUp)
    /\ UNCHANGED <<expression, rpn, outcome, raised, value,
                   total_expression, current_expression>>

NextFormat == CallFormatResult

SpecFormat == InitFormat /\ [][NextFormat]_vars

\* C8: the display string format_result returns never exceeds 11 characters,
\* on the scientific branch (|value| > 1e15) and on the fixed-point branch.
C8_DisplayWidthBounded ==
    pc = "format_result" => Len(text) <= DisplayWidth

\* format_result has cut a fixed-point rendering longer than the display
C8_Witness ==
    /\ pc = "format_result"
    /\ ~ExceedsThreshold(value)
    /\ \E tieUp \in BOOLEAN :
           /\ Len(FixedFormat(value, tieUp)) > DisplayWidth
           /\ text = SubSeq(FixedFormat(value, tieUp), 1, DisplayWidth)

----------------------------------------------------------------------------
(* Specification SpecCalc: the key handlers of Calculator *)

\* the buffers a key may still extend: current_expression below MaxCurrentLen
\* characters, total_expression up to MaxTotalLen
MaxCurrentLen == 2
MaxTotalLen == 3

\* the digit keys pressed (self.digits has 0..9 and ".")
KeyDigits == {"0", "5", "."}

\* self.operations
operations == [o \in operators |->
                  IF o = "/" THEN "÷" ELSE IF o = "*" THEN "×" ELSE o]

Error == <<"E", "r", "r", "o", "r">>

\* expression.replace('×', '*').replace('÷', '/')
ReplaceGlyphs(s) ==
    [i \in 1..Len(s) |-> IF s[i] = "×" THEN "*" ELSE IF s[i] = "÷" THEN "/" ELSE s[i]]

\* float(s) for a string of the buffer: [ok, val], not ok for ValueError.
\* Exponents, "inf" and "nan" are read by float too; no string within the
\* bounds holds them.
PyFloat(s) ==
    LET signed == s # <<>> /\ s[1] \in {"-", "+"}
        body == IF signed THEN Tail(s) ELSE s
        dot == DotIndex(body)
        ip == IF dot = 0 THEN body ELSE SubSeq(body, 1, dot - 1)
        fp == IF dot = 0 THEN <<>> ELSE SubSeq(body, dot + 1, Len(body))
        ok == /\ \A i \in 1..Len(ip) : ip[i] \in Digits
              /\ \A i \in 1..Len(fp) : fp[i] \in Digits
              /\ Len(ip) + Len(fp) > 0
        mag == Rat(DigitsToInt(ip \o fp), Pow10(Len(fp)))
    IN  [ok |-> ok,
         val |-> IF ~ok THEN Zero ELSE IF s[1] = "-" THEN RNeg(mag) ELSE mag]

InitCalc ==
    /\ total_expression = <<>>
    /\ current_expression = <<>>
    /\ pc = "init"
    /\ expression = <<>>
    /\ rpn = <<>>
    /\ outcome = NoOutcome
    /\ text = <<>>
    /\ raised = NoError
    /\ value = Zero

\* a handler other than evaluate has run
KeyHandled ==
    /\ pc' = "key"
    /\ expression' = <<>>
    /\ text' = <<>>
    /\ outcome' = NoOutcome
    /\ raised' = NoError
    /\ UNCHANGED <<rpn, value>>

\* _add_to_expression(value)
AddToExpression(digit) ==
    /\ current_expression = Error \/ Len(current_expression) < MaxCurrentLen
    /\ current_expression' =
           (IF current_expression = Error THEN <<>> ELSE current_expression) \o <<digit>>
    /\ UNCHANGED total_expression
    /\ KeyHandled

\* _append_operator(operator)
AppendOperator(operator) ==
    /\ Len(total_expression) + Len(current_expression) < MaxTotalLen
    /\ IF current_expression = <<>> /\ total_expression = <<>>
       THEN UNCHANGED <<total_expression, current_expression>>
       ELSE /\ total_expression' =
                   total_expression \o current_expression \o <<operations[operator]>>
            /\ current_expression' = <<>>
    /\ KeyHandled

\* _clear
Clear ==
    /\ current_expression' = <<>>
    /\ total_expression' = <<>>
    /\ KeyHandled

\* _square
Square ==
    /\ current_expression = Error \/ Len(current_expression) <= MaxCurrentLen
    /\ LET f == PyFloat(current_expression)
       IN  \E tieUp \in BOOLEAN :
               current_expression' =
                   IF f.ok THEN FormatResult(DecOfRat(RMul(f.val, f.val)), tieUp)
                   ELSE Error
    /\ UNCHANGED total_expression
    /\ KeyHandled

\* _percentage
Percentage ==
    /\ Len(current_expression) <= MaxCurrentLen
    /\ IF current_expression # <<>> /\ current_expression[Len(current_expression)] # "%"
       THEN current_expression' = Append(current_expression, "%")
       ELSE UNCHANGED current_expression
    /\ UNCHANGED total_expression
    /\ KeyHandled

\* evaluate.  resolve_percentage is called outside the try: what it raises
\* leaves evaluate before the buffers are touched.
Evaluate ==
    IF current_expression = <<>> /\ total_expression = <<>>
    THEN UNCHANGED vars
    ELSE LET e == ReplaceGlyphs(total_expression \o current_expression)
             r == ResolvePercentage(e)
             c == Compute(r.text)
         IN  /\ PercentInRange(e)
             /\ pc' = "evaluate"
             /\ expression' = e
             /\ raised' = r.err
             /\ IF r.err # NoError
                THEN /\ text' = <<>>
                     /\ outcome' = NoOutcome
                     /\ UNCHANGED <<total_expression, current_expression>>
                ELSE /\ text' = r.text
                     /\ outcome' = c
                     /\ \E tieUp \in BOOLEAN :
                            current_expression' =
                                IF c.err = NoError
                                THEN FormatResult(DecOfRat(c.val), tieUp)
                                ELSE Error
                     /\ total_expression' = <<>>
             /\ UNCHANGED <<rpn, value>>

NextCalc ==
    \/ \E digit \in KeyDigits : AddToExpression(digit)
    \/ \E operator \in operators : AppendOperator(operator)
    \/ Clear
    \/ Square
    \/ Percentage
    \/ Evaluate

SpecCalc == InitCalc /\ [][NextCalc]_vars

\* C7: after any sequence of key events, every call of evaluate made with a
\* non-empty buffer completes with total_expression reset to "" and
\* current_expression equal to the formatted result or to "Error"; no
\* evaluation error escapes evaluate, the percentage resolver's included.
C7_EvaluateAlwaysResets ==
    pc = "evaluate" =>
        /\ raised = NoError
        /\ total_expression = <<>>
        /\ \/ current_expression = Error
           \/ /\ outcome.err = NoError
              /\ \E tieUp \in BOOLEAN :
                     current_expression = FormatResult(DecOfRat(outcome.val), tieUp)

====
